---- MODULE Spec2Model ----
(***************************************************************************)
(* LocationStreamer.InputStream of                                         *)
(* staging/src/k8s.io/apiserver/pkg/registry/generic/rest/streamer.go.     *)
(*                                                                         *)
(* One invocation of InputStream is modelled as a process whose position   *)
(* is pc.  The two blocking calls (ConfigMap.Get and client.Do) are        *)
(* suspension points, so the caller's context can be cancelled before or   *)
(* while either is in flight.  The ConfigMap store, the upstream server    *)
(* and net/http's client are the environment: their answers are drawn      *)
(* nondeterministically from small sets.                                   *)
(*                                                                         *)
(* Go strings that the code inspects character by character (content       *)
(* types, header keys) are sequences of one-character strings; the empty   *)
(* Go string is << >>.  Opaque strings (URLs, tenant names, error texts)   *)
(* are TLA+ strings.                                                       *)
(***************************************************************************)
EXTENDS Integers, Sequences, FiniteSets, TLC

VARIABLES
    s,          \* the LocationStreamer (receiver), immutable during the call
    pc,         \* position of the InputStream invocation
    ctxDone,    \* TRUE once the caller's ctx is cancelled / past its deadline
    lookupCtx,  \* the context ConfigMap.Get was called with (None before the call)
    getResult,  \* what ConfigMap.Get returned (kind "pending" before it returns)
    vcName,     \* local vcName of InputStream ("" before it is assigned)
    client,     \* the *http.Client built by InputStream (None before)
    req,        \* the *http.Request built by InputStream (None before)
    wire,       \* requests the client has put on the wire, in order
    resp,       \* the *http.Response client.Do returned (None if none)
    body,       \* state of the last response body: "none", "open", "closed"
    result,     \* the values InputStream returned (None before it returns)
    events      \* trace of the blocking / pluggable calls made by the invocation

vars == <<s, pc, ctxDone, lookupCtx, getResult, vcName, client, req, wire, resp,
          body, result, events>>

Nil == "nil"

----------------------------------------------------------------------------
(* Bounds of the model. *)

\* longest Content-Type header value enumerated over the alphabet
MaxLen == 2
\* longest chain of redirect responses the upstream serves
MaxHops == 2

----------------------------------------------------------------------------
(* Strings as character sequences. *)

RECURSIVE StringsUpTo(_, _)
StringsUpTo(alphabet, n) ==
    IF n = 0 THEN {<< >>}
    ELSE LET shorter == StringsUpTo(alphabet, n - 1)
         IN  shorter \cup {Append(w, c) : w \in shorter, c \in alphabet}

\* unicode.IsSpace restricted to the characters of the model
IsSpace(c) == c \in {" ", "\t"}

\* strings.SplitN(str, sep, 2)[0]: everything before the first sep, or the
\* whole string when sep does not occur.
RECURSIVE SplitN2First(_, _)
SplitN2First(str, sep) ==
    IF str = << >> THEN << >>
    ELSE IF Head(str) = sep THEN << >>
    ELSE <<Head(str)>> \o SplitN2First(Tail(str), sep)

RECURSIVE TrimLeft(_)
TrimLeft(str) ==
    IF str # << >> /\ IsSpace(Head(str)) THEN TrimLeft(Tail(str)) ELSE str

RECURSIVE TrimRight(_)
TrimRight(str) ==
    IF str # << >> /\ IsSpace(str[Len(str)])
    THEN TrimRight(SubSeq(str, 1, Len(str) - 1))
    ELSE str

\* strings.TrimSpace
TrimSpace(str) == TrimRight(TrimLeft(str))

----------------------------------------------------------------------------
(* Optional values: a nil pointer is None, a set one is Some(x). *)

None == << >>
Some(x) == <<x>>
Val(o) == o[1]

----------------------------------------------------------------------------
(* Constants of the package. *)

VirtualClusterNameHeaderKey ==
    <<"v","i","r","t","u","a","l","c","l","u","s","t","e","r","-","n","a","m","e">>
VirtualClusterNameConfigMapDataKey == "VirtualClusterName"
VirtualClusterInfoConfigMapNS == "kube-system"
VirtualClusterInfoConfigMapName == "virtualcluster-info"

\* the key InputStream reads from the response header
ContentTypeKey == <<"C","o","n","t","e","n","t","-","T","y","p","e">>

----------------------------------------------------------------------------
(* http.Header: a map from canonical keys to the list of their values. *)

Lowers == <<"a","b","c","d","e","f","g","h","i","j","k","l","m",
            "n","o","p","q","r","s","t","u","v","w","x","y","z">>
Uppers == <<"A","B","C","D","E","F","G","H","I","J","K","L","M",
            "N","O","P","Q","R","S","T","U","V","W","X","Y","Z">>

Letters == {Lowers[i] : i \in 1..Len(Lowers)} \cup {Uppers[i] : i \in 1..Len(Uppers)}

UpperOf == [c \in Letters |->
              IF \E i \in 1..Len(Lowers) : Lowers[i] = c
              THEN Uppers[CHOOSE i \in 1..Len(Lowers) : Lowers[i] = c]
              ELSE c]

LowerOf == [c \in Letters |->
              IF \E i \in 1..Len(Uppers) : Uppers[i] = c
              THEN Lowers[CHOOSE i \in 1..Len(Uppers) : Uppers[i] = c]
              ELSE c]

ToUpper(c) == IF c \in Letters THEN UpperOf[c] ELSE c

ToLower(c) == IF c \in Letters THEN LowerOf[c] ELSE c

\* textproto.CanonicalMIMEHeaderKey: the first letter and every letter after
\* a hyphen in upper case, the others in lower case.
CanonicalMIMEHeaderKey(k) ==
    [i \in 1..Len(k) |->
        IF i = 1 \/ k[i - 1] = "-" THEN ToUpper(k[i]) ELSE ToLower(k[i])]

\* make(http.Header), as http.NewRequest does
EmptyHeader == [k \in {} |-> << >>]

\* http.Header.Add: append value to the values of the canonical key
HeaderAdd(h, key, value) ==
    LET ck == CanonicalMIMEHeaderKey(key)
        old == IF ck \in DOMAIN h THEN h[ck] ELSE << >>
    IN  [x \in DOMAIN h \cup {ck} |-> IF x = ck THEN Append(old, value) ELSE h[x]]

\* http.Header.Get: the first value of the canonical key, "" when there is none
HeaderGet(h, key) ==
    LET ck == CanonicalMIMEHeaderKey(key)
    IN  IF ck \in DOMAIN h /\ h[ck] # << >> THEN h[ck][1] ELSE << >>

----------------------------------------------------------------------------
(* Contexts. *)

\* the ctx argument of InputStream: the only context anyone cancels
CallerCtx == [root |-> "caller", namespace |-> Nil]

\* kubereq.NewContext(): context.TODO(), never cancelled, no deadline
NewContext == [root |-> "context.TODO", namespace |-> Nil]

\* kubereq.WithNamespace(parent, ns): a child of parent carrying the namespace
WithNamespace(parent, ns) == [parent EXCEPT !.namespace = ns]

\* c.Done() is closed: a context is done exactly when the context it derives
\* from is; only the caller's context is ever cancelled.
CtxIsDone(c, cancelled) == c.root = CallerCtx.root /\ cancelled

----------------------------------------------------------------------------
(* Errors InputStream can return. *)

ErrConstruct == "failed to construct request"
ErrTransport == "transport error"
ErrCanceled == "context canceled"
ErrRedirectsForbidden == "redirects forbidden"
ErrTooManyRedirects == "stopped after 10 redirects"
ErrCheck == "response check failed"

----------------------------------------------------------------------------
(* The inputs: the LocationStreamers InputStream is called on. *)

GoodLocation == [Scheme |-> "http", Host |-> "up.example", Path |-> "/x"]
\* a URL whose String() http.NewRequest cannot parse (a space in the host)
BadLocation == [Scheme |-> "http", Host |-> "up example", Path |-> "/x"]

\* url.URL.String()
URLString(u) == <<u.Scheme, "://", u.Host, u.Path>>

\* whether url.Parse, called by http.NewRequest, accepts the string
Parses(str) == str[3] # BadLocation.Host

AcceptAll == "accept-all"        \* a checker that accepts every response
RejectGE400 == "reject-ge-400"   \* a checker that rejects status >= 400
PreventRedirectsFn == "PreventRedirects"
AllowRedirects == "allow-redirects"  \* a caller-supplied policy that follows

TextPlain == <<"t","e","x","t","/","p","l","a","i","n">>
ApplicationJSON ==
    <<"a","p","p","l","i","c","a","t","i","o","n","/","j","s","o","n">>

Streamers ==
    [ Location        : {None, Some(GoodLocation), Some(BadLocation)},
      Transport       : {Nil, "custom-transport"},
      ContentType     : {<< >>, TextPlain, <<" ", "a", ";">>},
      Flush           : BOOLEAN,
      ResponseChecker : {Nil, AcceptAll, RejectGE400},
      RedirectChecker : {Nil, PreventRedirectsFn, AllowRedirects},
      ConfigMap       : {Nil, "cmstore.REST"} ]

----------------------------------------------------------------------------
(* The environment: the ConfigMap store and the upstream server. *)

TenantName == <<"v", "c">>

\* cm.Data of the records the store can hold
ConfigMapData ==
    { [k \in {} |-> << >>],
      [k \in {"Other"} |-> <<"x">>],
      [k \in {VirtualClusterNameConfigMapDataKey} |-> << >>],
      [k \in {VirtualClusterNameConfigMapDataKey} |-> TenantName],
      [k \in {VirtualClusterNameConfigMapDataKey, "Other"} |-> TenantName] }

\* what s.ConfigMap.Get can return: an error, an object of another type, or
\* a ConfigMap
GetResults ==
    { [kind |-> "err"], [kind |-> "obj", type |-> "Secret"] }
    \cup { [kind |-> "obj", type |-> "ConfigMap", Data |-> d] : d \in ConfigMapData }

Alphabet == {"a", ";", " "}

\* " text/plain ; v=2" and "application/json; charset=utf-8"
HeaderExamples ==
    { <<" ">> \o TextPlain \o <<" ", ";", " ", "v", "=", "2">>,
      ApplicationJSON \o <<";", " ", "c", "h", "a", "r", "s", "e", "t", "=",
                           "u", "t", "f", "-", "8">> }

ContentTypeValues == StringsUpTo(Alphabet, MaxLen) \cup HeaderExamples

\* the headers of a response: without Content-Type, or with one value of it
ResponseHeaders ==
    {EmptyHeader} \cup {HeaderAdd(EmptyHeader, ContentTypeKey, v) : v \in ContentTypeValues}

Responses == [StatusCode : {200, 404}, Header : ResponseHeaders]

\* the key of the redirect target in a 3xx response
LocationKey == <<"L","o","c","a","t","i","o","n">>

\* where the redirect responses of the upstream point
RedirectTarget == <<"http", "://", "moved.example", "/y">>

\* a redirect response of the upstream
RedirectResponse ==
    [StatusCode |-> 302, Header |-> HeaderAdd(EmptyHeader, LocationKey, RedirectTarget)]

----------------------------------------------------------------------------
(* The code of streamer.go. *)

\* getVirtualClusterName, given what s.ConfigMap.Get returned
getVirtualClusterName(g) ==
    IF g.kind = "err" THEN << >>
    ELSE IF g.type # "ConfigMap" THEN << >>
    ELSE IF VirtualClusterNameConfigMapDataKey \notin DOMAIN g.Data THEN << >>
    ELSE g.Data[VirtualClusterNameConfigMapDataKey]

\* a policy that lets the redirect through
PreventRedirectsAllows(r, via) == Nil

\* PreventRedirects(req, via)
PreventRedirects(r, via) == ErrRedirectsForbidden

\* net/http's limit of the policy used when CheckRedirect is nil
DefaultMaxRedirects == 10

\* client.checkRedirect: the CheckRedirect the client was built with, or
\* net/http's default when it is nil
CheckRedirect(policy, r, via) ==
    IF policy = Nil
    THEN IF Len(via) >= DefaultMaxRedirects THEN ErrTooManyRedirects ELSE Nil
    ELSE IF policy = PreventRedirectsFn THEN PreventRedirects(r, via)
    ELSE Nil

\* s.ResponseChecker.Check(resp)
Check(checker, r) ==
    IF checker = RejectGE400 /\ r.StatusCode >= 400 THEN ErrCheck ELSE Nil

\* the transport the client is built with
ClientTransport(t) == IF t = Nil THEN "http.DefaultTransport" ELSE t

\* the header's first part taken without strings.TrimSpace
ResolveContentTypeNoTrim(contentType, header) ==
    IF Len(contentType) = 0
    THEN LET h == HeaderGet(header, ContentTypeKey)
         IN  IF Len(h) > 0 THEN SplitN2First(h, ";") ELSE h
    ELSE contentType

\* the content type InputStream resolves from s.ContentType and the response
ResolveContentType(contentType, header) ==
    IF Len(contentType) = 0
    THEN LET h == HeaderGet(header, ContentTypeKey)
         IN  IF Len(h) > 0 THEN TrimSpace(SplitN2First(h, ";")) ELSE h
    ELSE contentType

\* the early return handing back the streamer's own flush and content type
NoStreamFromSpec ==
    [stream |-> Nil, flush |-> s.Flush, contentType |-> s.ContentType, err |-> Nil]

\* return nil, false, "", nil
NoStream == [stream |-> Nil, flush |-> FALSE, contentType |-> << >>, err |-> Nil]

\* an error return that still hands out the response body
ErrorReturnKeepsBody(e) ==
    [stream |-> IF resp # None THEN "resp.Body" ELSE Nil,
     flush |-> FALSE, contentType |-> << >>, err |-> e]

\* return nil, false, "", err
ErrorReturn(e) == [stream |-> Nil, flush |-> FALSE, contentType |-> << >>, err |-> e]

\* the named results at the final return: stream = resp.Body, flush = s.Flush
StreamReturn(flush, contentType) ==
    [stream |-> "resp.Body", flush |-> flush, contentType |-> contentType, err |-> Nil]

----------------------------------------------------------------------------
(* The state machine of one InputStream invocation. *)

Init ==
    /\ s \in Streamers
    /\ pc = "start"
    /\ ctxDone = FALSE
    /\ lookupCtx = None
    /\ getResult = [kind |-> "pending"]
    /\ vcName = << >>
    /\ client = None
    /\ req = None
    /\ wire = << >>
    /\ resp = None
    /\ body = "none"
    /\ result = None
    /\ events = << >>

\* the caller cancels ctx, or its deadline passes, while the call is running
Cancel ==
    /\ pc \notin {"done", "panic"}
    /\ ~ctxDone
    /\ ctxDone' = TRUE
    /\ UNCHANGED <<s, pc, lookupCtx, getResult, vcName, req, wire, resp, body,
                   result, events, client>>

\* if s.Location == nil { return nil, false, "", nil }
ReturnNoLocation ==
    /\ pc = "start"
    /\ s.Location = None
    /\ result' = Some(NoStream)
    /\ events' = Append(events, "return")
    /\ pc' = "done"
    /\ UNCHANGED <<s, ctxDone, lookupCtx, getResult, vcName, req, wire, resp,
                   body, client>>

\* http.NewRequest fails: return nil, false, "", fmt.Errorf(...)
NewRequestFails ==
    /\ pc = "start"
    /\ s.Location # None
    /\ ~Parses(URLString(Val(s.Location)))
    /\ result' = Some(ErrorReturn(ErrConstruct))
    /\ events' = Append(events, "return")
    /\ pc' = "done"
    /\ UNCHANGED <<s, ctxDone, lookupCtx, getResult, vcName, req, wire, resp,
                   body, client>>

\* the client is built, http.NewRequest succeeds, req = req.WithContext(ctx)
NewRequest ==
    /\ pc = "start"
    /\ s.Location # None
    /\ Parses(URLString(Val(s.Location)))
    /\ client' = Some([Transport |-> ClientTransport(s.Transport),
                       CheckRedirect |-> s.RedirectChecker])
    /\ req' = Some([Method |-> "GET", URL |-> URLString(Val(s.Location)),
                    Header |-> EmptyHeader, ctx |-> CallerCtx])
    /\ pc' = "built"
    /\ UNCHANGED <<s, ctxDone, lookupCtx, getResult, vcName, wire, resp, body,
                   result, events>>

\* getVirtualClusterName on a streamer without ConfigMap: s.ConfigMap.Get
\* dereferences the nil *cmstore.REST and the goroutine panics
LookupNilConfigMap ==
    /\ pc = "built"
    /\ s.ConfigMap = Nil
    /\ events' = Append(events, "lookup")
    /\ pc' = "panic"
    /\ UNCHANGED <<s, ctxDone, lookupCtx, getResult, vcName, req, wire, resp,
                   body, result, client>>

\* getVirtualClusterName calls s.ConfigMap.Get(ctx, ...) with
\* ctx := WithNamespace(NewContext(), VirtualClusterInfoConfigMapNS)
LookupStart ==
    /\ pc = "built"
    /\ s.ConfigMap # Nil
    /\ lookupCtx' = Some(WithNamespace(NewContext, VirtualClusterInfoConfigMapNS))
    /\ events' = Append(events, "lookup")
    /\ pc' = "lookup"
    /\ UNCHANGED <<s, ctxDone, getResult, vcName, req, wire, resp, body,
                   result, client>>

\* what Get may answer: a store whose context is done fails the call
GetAnswers ==
    IF CtxIsDone(Val(lookupCtx), ctxDone) THEN {[kind |-> "err"]} ELSE GetResults

\* the header added only when the tenant name is not empty
LookupReturnsSkipsEmpty(g) ==
    /\ pc = "lookup"
    /\ g \in GetAnswers
    /\ getResult' = g
    /\ vcName' = getVirtualClusterName(g)
    /\ req' = IF getVirtualClusterName(g) = << >> THEN req
              ELSE Some([Val(req) EXCEPT
                           !.Header = HeaderAdd(@, VirtualClusterNameHeaderKey,
                                                getVirtualClusterName(g))])
    /\ events' = Append(events, "send")
    /\ pc' = "do"
    /\ UNCHANGED <<s, ctxDone, lookupCtx, wire, resp, body, result, client>>

\* a failed Get turned into an error of InputStream
LookupReturnsFatal(g) ==
    /\ pc = "lookup"
    /\ g \in GetAnswers
    /\ getResult' = g
    /\ vcName' = getVirtualClusterName(g)
    /\ IF g.kind = "err"
       THEN /\ result' = Some(ErrorReturn("tenant lookup failed"))
            /\ events' = Append(events, "return")
            /\ pc' = "done"
            /\ req' = req
       ELSE /\ req' = Some([Val(req) EXCEPT
                              !.Header = HeaderAdd(@, VirtualClusterNameHeaderKey,
                                                   getVirtualClusterName(g))])
            /\ events' = Append(events, "send")
            /\ pc' = "do"
            /\ result' = result
    /\ UNCHANGED <<s, ctxDone, lookupCtx, wire, resp, body, client>>

\* Get returns g; vcName := getVirtualClusterName();
\* req.Header.Add(VirtualClusterNameHeaderKey, vcName); client.Do(req) is called
LookupReturns(g) ==
    /\ pc = "lookup"
    /\ g \in GetAnswers
    /\ getResult' = g
    /\ vcName' = getVirtualClusterName(g)
    /\ req' = Some([Val(req) EXCEPT
                      !.Header = HeaderAdd(@, VirtualClusterNameHeaderKey,
                                           getVirtualClusterName(g))])
    /\ events' = Append(events, "send")
    /\ pc' = "do"
    /\ UNCHANGED <<s, ctxDone, lookupCtx, wire, resp, body, result, client>>

\* the request client.Do sends next: req itself, or after a redirect a GET of
\* the target with req's headers and context
NextRequest ==
    IF wire = << >> THEN Val(req) ELSE [Val(req) EXCEPT !.URL = RedirectTarget]

\* a failed client.Do tried once more before giving up
DoFailsResends ==
    /\ pc = "do"
    /\ IF Len(events) < 3
       THEN /\ events' = Append(events, "send")
            /\ UNCHANGED <<pc, result>>
       ELSE /\ result' = Some(ErrorReturn(IF CtxIsDone(Val(req).ctx, ctxDone)
                                          THEN ErrCanceled ELSE ErrTransport))
            /\ events' = Append(events, "return")
            /\ pc' = "done"
    /\ UNCHANGED <<s, ctxDone, lookupCtx, getResult, vcName, req, wire, resp,
                   body, client>>

\* client.Do fails: the transport fails, or req's context is done;
\* return nil, false, "", err
DoFails ==
    /\ pc = "do"
    /\ result' = Some(ErrorReturn(IF CtxIsDone(Val(req).ctx, ctxDone)
                                  THEN ErrCanceled ELSE ErrTransport))
    /\ events' = Append(events, "return")
    /\ pc' = "done"
    /\ UNCHANGED <<s, ctxDone, lookupCtx, getResult, vcName, req, wire, resp,
                   body, client>>

\* inside client.Do: the upstream answers the request with a redirect and the
\* policy lets the client follow it; the client closes the 3xx body
DoRedirectFollowed ==
    /\ pc = "do"
    /\ ~CtxIsDone(Val(req).ctx, ctxDone)
    /\ Len(wire) < MaxHops
    /\ LET via == Append(wire, NextRequest)
       IN  /\ CheckRedirect(Val(client).CheckRedirect,
                            [Val(req) EXCEPT !.URL = RedirectTarget], via) = Nil
           /\ wire' = via
    /\ resp' = Some(RedirectResponse)
    /\ body' = "closed"
    /\ UNCHANGED <<s, pc, ctxDone, lookupCtx, getResult, vcName, req, result,
                   events, client>>

\* inside client.Do: the upstream answers with a redirect and the policy
\* returns an error; the client closes the 3xx body and Do returns the error;
\* return nil, false, "", err
DoRedirectRejected ==
    /\ pc = "do"
    /\ ~CtxIsDone(Val(req).ctx, ctxDone)
    /\ Len(wire) < MaxHops
    /\ LET via == Append(wire, NextRequest)
           e == CheckRedirect(Val(client).CheckRedirect,
                              [Val(req) EXCEPT !.URL = RedirectTarget], via)
       IN  /\ e # Nil
           /\ wire' = via
           /\ result' = Some(ErrorReturn(e))
    /\ resp' = Some(RedirectResponse)
    /\ body' = "closed"
    /\ events' = Append(events, "return")
    /\ pc' = "done"
    /\ UNCHANGED <<s, ctxDone, lookupCtx, getResult, vcName, req, client>>

\* client.Do returns the upstream's response r with its body open
DoReturns(r) ==
    /\ pc = "do"
    /\ ~CtxIsDone(Val(req).ctx, ctxDone)
    /\ r \in Responses
    /\ wire' = Append(wire, NextRequest)
    /\ resp' = Some(r)
    /\ body' = "open"
    /\ pc' = "recv"
    /\ UNCHANGED <<s, ctxDone, lookupCtx, getResult, vcName, req, result,
                   events, client>>

\* s.ResponseChecker.Check(resp) returns an error: return nil, false, "", err
CheckRejects ==
    /\ pc = "recv"
    /\ s.ResponseChecker # Nil
    /\ Check(s.ResponseChecker, Val(resp)) # Nil
    /\ result' = Some(ErrorReturn(Check(s.ResponseChecker, Val(resp))))
    /\ events' = events \o <<"check", "return">>
    /\ pc' = "done"
    /\ UNCHANGED <<s, ctxDone, lookupCtx, getResult, vcName, req, wire, resp,
                   body, client>>

\* no checker, or the checker accepts: the content type is resolved and
\* resp.Body is returned, still open
ReturnStream ==
    /\ pc = "recv"
    /\ s.ResponseChecker # Nil => Check(s.ResponseChecker, Val(resp)) = Nil
    /\ result' = Some(StreamReturn(s.Flush,
                        ResolveContentType(s.ContentType, Val(resp).Header)))
    /\ events' = events \o (IF s.ResponseChecker # Nil THEN <<"check">> ELSE << >>)
                        \o <<"return">>
    /\ pc' = "done"
    /\ UNCHANGED <<s, ctxDone, lookupCtx, getResult, vcName, req, wire, resp,
                   body, client>>

Next ==
    \/ Cancel
    \/ ReturnNoLocation
    \/ NewRequestFails
    \/ NewRequest
    \/ LookupNilConfigMap
    \/ LookupStart
    \/ \E g \in GetResults : LookupReturns(g)
    \/ DoFails
    \/ DoRedirectFollowed
    \/ DoRedirectRejected
    \/ \E r \in Responses : DoReturns(r)
    \/ CheckRejects
    \/ ReturnStream

Spec == Init /\ [][Next]_vars

----------------------------------------------------------------------------
(* Helpers of the properties. *)

Returned == pc = "done"
Res == Val(result)

\* the response client.Do handed to InputStream is a final one, not a redirect
\* the client consumed itself
GotFinalResponse == resp # None /\ Val(resp) \in Responses

LowerKey(k) == [i \in 1..Len(k) |-> ToLower(k[i])]

\* the keys of header h that name `key`, header names being case-insensitive
KeysNamed(h, key) ==
    LET name == LowerKey(key) IN {k \in DOMAIN h : LowerKey(k) = name}

HasPrefix(str, p) == Len(str) >= Len(p) /\ SubSeq(str, 1, Len(p)) = p

\* r is str cut at its first ";" (or whole, without one) and stripped of the
\* white space at both ends
IsTrimmedFirstPart(r, str) ==
    \E n \in 0..Len(str) :
        /\ \A i \in 1..n : str[i] # ";"
        /\ n = Len(str) \/ str[n + 1] = ";"
        /\ \E a \in 0..n : \E b \in a..n :
              /\ r = SubSeq(str, a + 1, b)
              /\ \A i \in 1..a : IsSpace(str[i])
              /\ \A i \in (b + 1)..n : IsSpace(str[i])
              /\ r # << >> => ~IsSpace(r[1]) /\ ~IsSpace(r[Len(r)])

\* the error the code must return given what client.Do and the checker did
ErrorsOfSendAndCheck ==
    IF ~GotFinalResponse
    THEN {ErrTransport, ErrCanceled, ErrRedirectsForbidden, ErrTooManyRedirects}
    ELSE IF s.ResponseChecker = RejectGE400 /\ Val(resp).StatusCode >= 400
    THEN {ErrCheck}
    ELSE {Nil}

LookupFailed ==
    \/ getResult.kind = "err"
    \/ getResult.kind = "obj" /\ getResult.type # "ConfigMap"
    \/ /\ getResult.kind = "obj"
       /\ getResult.type = "ConfigMap"
       /\ VirtualClusterNameConfigMapDataKey \notin DOMAIN getResult.Data

----------------------------------------------------------------------------
(* The claims. *)

\* C1: when the configured Response Validator rejects the response,
\* InputStream returns the validator's error with no stream handle and the
\* response body has been closed before it returns.
C1_RejectedBodyClosed ==
    (Returned /\ Res.err = ErrCheck) => (Res.stream = Nil /\ body = "closed")

\* C2: with Location unset, whatever the other fields, InputStream returns
\* no handle, flush=false, an empty content type and no error, and makes no
\* tenant lookup, sends no request and invokes no validator.
C2_NoLocationNoStream ==
    s.Location = None =>
        /\ pc \in {"start", "done"}
        /\ lookupCtx = None /\ req = None /\ wire = << >> /\ resp = None
        /\ body = "none"
        /\ Returned =>
              /\ Res.stream = Nil /\ Res.flush = FALSE
              /\ Res.contentType = << >> /\ Res.err = Nil
              /\ events = <<"return">>

C2_Witness ==
    /\ Returned /\ s.Location = None
    /\ s.Flush /\ s.ContentType # << >>
    /\ s.ResponseChecker # Nil /\ s.RedirectChecker # Nil

\* every failure path ends with an error
C3_FailuresReturnError ==
    Returned =>
        /\ (s.Location # None /\ ~Parses(URLString(Val(s.Location))))
              => Res.err = ErrConstruct
        /\ (req # None /\ ~GotFinalResponse) => Res.err # Nil
        /\ (GotFinalResponse /\ s.ResponseChecker = RejectGE400
                /\ Val(resp).StatusCode >= 400) => Res.err = ErrCheck

\* an error comes with no handle, flush=false and an empty content type
C3_ErrorMeansNoStream ==
    Returned =>
        /\ Res.err # Nil =>
              Res.stream = Nil /\ Res.flush = FALSE /\ Res.contentType = << >>
        /\ ~(Res.err # Nil /\ Res.stream # Nil)

\* a send that ends while the caller's context is cancelled ends in an error
C3_CancelledSendFails ==
    (pc = "do" /\ ctxDone /\ pc' # "do") =>
        (pc' = "done" /\ Val(result').err # Nil /\ Val(result').stream = Nil)

\* C3: on every failure path (request construction, transport, cancellation
\* of the caller's context before the send completes, redirect rejection,
\* validator rejection) the result is a non-nil error with no handle,
\* flush=false and an empty content type; an error and a handle are never
\* returned together.
C3_FailurePaths ==
    /\ [](C3_FailuresReturnError /\ C3_ErrorMeansNoStream)
    /\ [][C3_CancelledSendFails]_vars

C3_Witness ==
    /\ Returned /\ Res.err = ErrCheck
    /\ s.Flush /\ s.ContentType # << >>

\* C4: on success the content type is s.ContentType verbatim when that is
\* non-empty; otherwise the response's Content-Type up to its first ";",
\* trimmed of surrounding white space; and empty without that header.
C4_ContentType ==
    (Returned /\ Res.err = Nil /\ s.Location # None) =>
        LET h == Val(resp).Header
        IN  /\ s.ContentType # << >> => Res.contentType = s.ContentType
            /\ (s.ContentType = << >> /\ ContentTypeKey \notin DOMAIN h)
                  => Res.contentType = << >>
            /\ (s.ContentType = << >> /\ ContentTypeKey \in DOMAIN h)
                  => IsTrimmedFirstPart(Res.contentType, h[ContentTypeKey][1])
            /\ (s.ContentType = << >> /\ ContentTypeKey \in DOMAIN h
                    /\ HasPrefix(h[ContentTypeKey][1], Append(ApplicationJSON, ";")))
                  => Res.contentType = ApplicationJSON

C4_Witness ==
    /\ Returned /\ Res.err = Nil /\ s.ContentType = << >>
    /\ GotFinalResponse
    /\ ContentTypeKey \in DOMAIN Val(resp).Header
    /\ Len(Val(resp).Header[ContentTypeKey][1]) > Len(ApplicationJSON)
    /\ Res.contentType = ApplicationJSON

\* request r carries the tenant header exactly once, with value v
CarriesTenantOnce(r, v) ==
    /\ Cardinality(KeysNamed(r.Header, VirtualClusterNameHeaderKey)) = 1
    /\ \A k \in KeysNamed(r.Header, VirtualClusterNameHeaderKey) : r.Header[k] = <<v>>

\* C5: every request InputStream sends is a GET carrying the header
\* "virtualcluster-name" exactly once, its value the string the Tenant
\* Resolver returned, also when that string is empty.
C5_TenantHeader ==
    /\ \A i \in 1..Len(wire) :
          wire[i].Method = "GET" /\ CarriesTenantOnce(wire[i], vcName)
    /\ pc = "do" => (Val(req).Method = "GET" /\ CarriesTenantOnce(Val(req), vcName))
    /\ (pc \in {"do", "recv", "done"} /\ req # None /\ ~LookupFailed)
          => vcName = getResult.Data[VirtualClusterNameConfigMapDataKey]

C5_Witness ==
    /\ wire # << >> /\ LookupFailed /\ vcName = << >>
    /\ CarriesTenantOnce(wire[1], << >>)

\* C6: a failed tenant lookup (Get errs, returns another type, or the record
\* lacks the key) gives the empty tenant and never fails the operation: the
\* request is still sent and the outcome depends on the send, the redirect
\* policy and the validator only.
C6_LookupNeverFatal ==
    (pc \in {"do", "recv", "done"} /\ req # None /\ LookupFailed) =>
        /\ vcName = << >>
        /\ events[1] = "lookup" /\ events[2] = "send"
        /\ Returned => (wire # << >> \/ Res.err \in {ErrTransport, ErrCanceled})
        /\ Returned => Res.err \in ErrorsOfSendAndCheck
        /\ (Returned /\ Res.err = Nil) => Res.stream # Nil

C6_Witness ==
    /\ Returned /\ req # None /\ getResult.kind = "err"
    /\ Res.err = Nil /\ Res.stream # Nil

\* C7: with PreventRedirects as the policy, a redirect response yields the
\* error "redirects forbidden" and no handle, and the redirect target is
\* never requested; PreventRedirects returns that error for every request
\* and every history.
C7_RedirectsForbidden ==
    (s.RedirectChecker = PreventRedirectsFn /\ req # None) =>
        /\ \A i \in 1..Len(wire) : wire[i].URL = URLString(Val(s.Location))
        /\ Len(wire) <= 1
        /\ resp = Some(RedirectResponse) =>
              /\ Returned
              /\ Res.err = ErrRedirectsForbidden /\ Res.stream = Nil
              /\ body = "closed"
        /\ \A n \in 0..(MaxHops + 1) :
              PreventRedirects([Val(req) EXCEPT !.URL = RedirectTarget],
                               [i \in 1..n |-> Val(req)]) = ErrRedirectsForbidden

C7_Witness ==
    /\ s.RedirectChecker = PreventRedirectsFn
    /\ resp = Some(RedirectResponse) /\ Returned
    /\ Res.err = ErrRedirectsForbidden

\* C8: the tenant lookup and the HTTP GET both run under the caller-supplied
\* context, the adapter creating no context of its own for either, so that
\* cancelling the caller's context aborts whichever is in flight.
C8_BothCallsUnderCallerContext ==
    /\ lookupCtx # None => Val(lookupCtx).root = CallerCtx.root
    /\ req # None => Val(req).ctx.root = CallerCtx.root
    /\ (pc = "lookup" /\ ctxDone) => GetAnswers = {[kind |-> "err"]}

Count(seq, e) == Cardinality({i \in 1..Len(seq) : seq[i] = e})

\* C9: with a location set, the tenant lookup, one send, then (only after a
\* successful send with a validator configured) one validator check, then
\* the return happen at most once each and in this order; one request per
\* invocation, no re-send after a failure, no check after a failed send.
C9_OneRequestInOrder ==
    /\ events \in { << >>, <<"return">>, <<"lookup">>, <<"lookup", "send">>,
                    <<"lookup", "send", "return">>,
                    <<"lookup", "send", "check", "return">> }
    /\ Count(events, "check") > 0 =>
          (s.ResponseChecker # Nil /\ GotFinalResponse /\ body = "open")
    /\ (Returned /\ GotFinalResponse /\ s.ResponseChecker # Nil)
          => Count(events, "check") = 1
    /\ (Returned /\ req # None) =>
          (Count(events, "lookup") = 1 /\ Count(events, "send") = 1)
    /\ (Returned /\ req = None) => events = <<"return">>

C9_Witness ==
    /\ events = <<"lookup", "send", "check", "return">>
    /\ Res.err = Nil

\* C10: a streamer with a location and no ConfigMap collaborator does not
\* crash: the tenant is the empty string and the request is still sent with
\* an empty "virtualcluster-name" header.
C10_NilConfigMapTolerated ==
    (s.ConfigMap = Nil /\ s.Location # None) =>
        /\ pc # "panic"
        /\ Returned /\ req # None =>
              /\ vcName = << >>
              /\ Count(events, "send") = 1

====
